---- MODULE Spec2Model ----
(***************************************************************************)
(* Model of pingdom_check_pause/pingdom_pause.py: one invocation of main() *)
(* as a sequential state machine (parse, resolve token, GET /checks,       *)
(* filter, dry-run preview or PUT /checks, report), specification Spec.    *)
(* Model of combine_pdf/merge_pdf.py: repeated calls of                    *)
(* combine_pdfs_in_directory on one directory, specification PdfSpec.      *)
(*                                                                         *)
(* Strings are sequences of one-character strings.  A value that Python    *)
(* may leave out (os.getenv -> None, a dict key that is absent) is kept as *)
(* a has-flag next to the value.                                           *)
(***************************************************************************)
EXTENDS Integers, Sequences, FiniteSets, TLC

VARIABLES
    action,         \* args.action: "pause" or "resume"
    patterns,       \* args.patterns: sequence of strings
    dry_run,        \* args.dry_run
    case_sensitive, \* args.case_sensitive
    env,            \* os.getenv(args.token_env): <<>> is None, <<s>> is the string s
    pc,             \* position of main()
    checks,         \* result of fetch_all_checks
    matched,        \* result of the filter step
    matched_ids,    \* main, line 119
    matched_names,  \* main, line 120
    log,            \* history: network calls, filter and print steps, in order
    getResponse,    \* what the GET returned (history)
    putResponse,    \* what the PUT returned (history)
    payload,        \* form body handed to session.put
    stdout,         \* lines printed
    diag,           \* what the process wrote to stderr on exit
    outcome,        \* taxonomy kind the run ended in
    exitCode,       \* process exit status, NoExit while running
    directory,      \* merge_pdf: names of the files in the directory
    output_filename,\* merge_pdf: the output_filename argument
    runs            \* merge_pdf: pdf_files of each call so far (history)

\* state of one invocation of pingdom_pause.py
mainVars == <<action, patterns, dry_run, case_sensitive, env, pc, checks,
              matched, matched_ids, matched_names, log, getResponse,
              putResponse, payload, stdout, diag, outcome, exitCode>>

\* state of the directory merge_pdf.py works on
pdfVars == <<directory, output_filename, runs>>

vars == <<mainVars, pdfVars>>

----------------------------------------------------------------------------
(* Bounds of the model *)

MaxChecks == 2
MaxPatterns == 2
MaxRuns == 2

----------------------------------------------------------------------------
(* Input universes *)

\* substrings the operator can pass on the command line ("" included)
PatternUniverse == { <<>>, <<"a">>, <<"A", "B">> }

\* values of the token environment variable: unset, empty, set
EnvUniverse == { <<>>, << <<>> >>, << <<"t">> >> }

\* HTTP statuses the service can answer with
StatusUniverse == { 200, 301, 401, 404, 500 }

NoStatus == 0 - 1
NoExit == 0 - 1

SeqsUpTo(S, n) == UNION { [1..k -> S] : k \in 0..n }

\* one element of the "checks" array; either key may be absent
Check(hasId, id, hasName, name) ==
    [hasId |-> hasId, id |-> id, hasName |-> hasName, name |-> name]

\* checks the service can list: names differing in case, a repeated id,
\* a two-digit id, a check without id and a check without name
CheckUniverse ==
    { Check(TRUE, 7, TRUE, <<"A", "b">>),
      Check(TRUE, 12, TRUE, <<"b", "a">>),
      Check(TRUE, 12, TRUE, <<"A", "b">>),
      Check(FALSE, 0, TRUE, <<"b", "a">>),
      Check(TRUE, 7, FALSE, <<>>) }

\* number of lines of the stripped body of an error response to the PUT
BodyLinesUniverse == { 0, 1, 2 }

----------------------------------------------------------------------------
(* Pure helpers *)

\* str.lower() on one character
LowerChar(ch) ==
    CASE ch = "A" -> "a"
      [] ch = "B" -> "b"
      [] ch = "D" -> "d"
      [] ch = "F" -> "f"
      [] ch = "P" -> "p"
      [] OTHER -> ch

\* str.lower()
lower(s) == [i \in 1..Len(s) |-> LowerChar(s[i])]

\* Python's `p in name` on strings
In(p, name) ==
    \E i \in 0..(Len(name) - Len(p)) : SubSeq(name, i + 1, i + Len(p)) = p

\* c.get("name") or ""
NameOrEmpty(c) == IF c.hasName THEN c.name ELSE <<>>

\* any(p in name for p in pats)
AnyIn(pats, name) == \E k \in 1..Len(pats) : In(pats[k], name)

\* the loop of filter_checks: walk checks in order, append the ones that match
RECURSIVE FilterLoop(_, _, _)
FilterLoop(cs, pats, acc) ==
    IF cs = <<>> THEN acc
    ELSE LET c == Head(cs)
             name == lower(NameOrEmpty(c))
         IN  FilterLoop(Tail(cs), pats,
                        IF AnyIn(pats, name) THEN Append(acc, c) ELSE acc)

\* filter_checks that forgets to lowercase the patterns
filter_checks_RawPatterns(cs, pats) == FilterLoop(cs, pats, <<>>)

filter_checks(cs, pats) ==
    FilterLoop(cs, [k \in 1..Len(pats) |-> lower(pats[k])], <<>>)

\* the comprehension of main, line 111 (--case-sensitive)
RECURSIVE CaseSensitiveFilter(_, _)
CaseSensitiveFilter(cs, pats) ==
    IF cs = <<>> THEN <<>>
    ELSE LET c == Head(cs)
             rest == CaseSensitiveFilter(Tail(cs), pats)
         IN  IF AnyIn(pats, NameOrEmpty(c)) THEN <<c>> \o rest ELSE rest

\* matched ids collected without repetition
RECURSIVE MatchedIds_Distinct(_)
MatchedIds_Distinct(ms) ==
    IF ms = <<>> THEN <<>>
    ELSE LET rest == MatchedIds_Distinct(Tail(ms))
         IN  IF Head(ms).hasId /\ ~(\E k \in 1..Len(rest) : rest[k] = Head(ms).id)
             THEN <<Head(ms).id>> \o rest
             ELSE rest

\* [int(c["id"]) for c in matched if "id" in c]
RECURSIVE MatchedIds(_)
MatchedIds(ms) ==
    IF ms = <<>> THEN <<>>
    ELSE IF Head(ms).hasId THEN <<Head(ms).id>> \o MatchedIds(Tail(ms))
         ELSE MatchedIds(Tail(ms))

\* [c.get("name", f"id:{c.get('id')}") for c in matched]
\* a name is kept as it is; the fallback label is kept as the id it prints
MatchedNames(ms) ==
    [k \in 1..Len(ms) |->
        IF ms[k].hasName
        THEN [label |-> FALSE, name |-> ms[k].name, hasId |-> FALSE, id |-> 0]
        ELSE [label |-> TRUE, name |-> <<>>, hasId |-> ms[k].hasId, id |-> ms[k].id]]

\* zip(matched_names, matched_ids): stops at the shorter one
Zip(names, ids) ==
    LET n == IF Len(names) < Len(ids) THEN Len(names) ELSE Len(ids)
    IN  [k \in 1..n |-> [kind |-> "item", name |-> names[k], id |-> ids[k]]]

DigitChar(d) ==
    CASE d = 0 -> "0" [] d = 1 -> "1" [] d = 2 -> "2" [] d = 3 -> "3"
      [] d = 4 -> "4" [] d = 5 -> "5" [] d = 6 -> "6" [] d = 7 -> "7"
      [] d = 8 -> "8" [] d = 9 -> "9"

\* str(i) for a non-negative int
RECURSIVE str(_)
str(i) == IF i < 10 THEN <<DigitChar(i)>>
          ELSE str(i \div 10) \o <<DigitChar(i % 10)>>

\* ",".join(str(i) for i in check_ids)
RECURSIVE Join(_)
Join(ids) ==
    IF ids = <<>> THEN <<>>
    ELSE IF Len(ids) = 1 THEN str(ids[1])
    ELSE str(ids[1]) \o <<",">> \o Join(Tail(ids))

\* a payload whose paused field is the wrong way round
Payload_Inverted(check_ids, pause) ==
    [paused |-> IF pause THEN "false" ELSE "true",
     hasCheckids |-> check_ids # <<>>,
     checkids |-> IF check_ids # <<>> THEN Join(check_ids) ELSE <<>>]

\* payload built by bulk_pause_or_resume
Payload(check_ids, pause) ==
    [paused |-> IF pause THEN "true" ELSE "false",
     hasCheckids |-> check_ids # <<>>,
     checkids |-> IF check_ids # <<>> THEN Join(check_ids) ELSE <<>>]

\* a 401 test that looks at the wrong status
Unauthorized_Forbidden(status) == status = 403

\* r.status_code == 401
Unauthorized(status) == status = 401

\* a token test that only catches the unset variable
NotToken_UnsetOnly(e) == e = <<>>

\* `not token`: None and "" are both falsy
NotToken(e) == e = <<>> \/ e = << <<>> >>

\* Response.raise_for_status(): raises for 400..599 only
RaisesForStatus(status) == 400 <= status /\ status < 600

NoDiag == [form |-> "none", lines |-> 0, status |-> NoStatus, hasBody |-> FALSE]

\* sys.exit(<one-line string>): the string goes to stderr, exit status 1
ExitMessage == [form |-> "message", lines |-> 1, status |-> NoStatus, hasBody |-> FALSE]

\* an exception nobody catches: the interpreter prints a traceback, exit status 1
Traceback(status) == [form |-> "traceback", lines |-> 0, status |-> status, hasBody |-> FALSE]

NoResponse == [kind |-> "none", status |-> NoStatus, body |-> "none", lines |-> 0]

NoPayload == [paused |-> "none", hasCheckids |-> FALSE, checkids |-> <<>>]

----------------------------------------------------------------------------
(* State machine *)

\* the directory plays no part in a run of pingdom_pause.py
NoDirectory ==
    /\ directory = {}
    /\ output_filename = <<>>
    /\ runs = <<>>

Init ==
    /\ NoDirectory
    /\ action \in {"pause", "resume"}
    /\ patterns \in SeqsUpTo(PatternUniverse, MaxPatterns)
    /\ dry_run \in BOOLEAN
    /\ case_sensitive \in BOOLEAN
    /\ env \in EnvUniverse
    /\ pc = "Start"
    /\ checks = <<>>
    /\ matched = <<>>
    /\ matched_ids = <<>>
    /\ matched_names = <<>>
    /\ log = <<>>
    /\ getResponse = NoResponse
    /\ putResponse = NoResponse
    /\ payload = NoPayload
    /\ stdout = <<>>
    /\ diag = NoDiag
    /\ outcome = "running"
    /\ exitCode = NoExit

\* an error that is recorded while the run carries on where it was
Fail_CarryOn(kind, d) ==
    /\ pc' = pc
    /\ outcome' = kind
    /\ diag' = d
    /\ exitCode' = exitCode

\* sys.exit(msg) / uncaught exception: the process ends with status 1
Fail(kind, d) ==
    /\ pc' = "Failed"
    /\ outcome' = kind
    /\ diag' = d
    /\ exitCode' = 1

\* a pattern test that never fires
NoPatterns_Skipped == FALSE

\* `not args.patterns`
NoPatterns == patterns = <<>>

\* a main that resolves the token before it looks at the patterns
ParseArgs_TokenFirst ==
    /\ pc = "Start"
    /\ IF NotToken(env)
       THEN Fail("MissingCredential", ExitMessage)
       ELSE IF NoPatterns
       THEN Fail("InvalidArgument", ExitMessage)
       ELSE /\ pc' = "ArgsParsed"
            /\ UNCHANGED <<outcome, diag, exitCode>>
    /\ UNCHANGED pdfVars
    /\ UNCHANGED <<action, patterns, dry_run, case_sensitive, env, checks,
                   matched, matched_ids, matched_names, log, getResponse,
                   putResponse, payload, stdout>>

\* main, lines 90-93
ParseArgs ==
    /\ pc = "Start"
    /\ IF NoPatterns
       THEN Fail("InvalidArgument", ExitMessage)
       ELSE /\ pc' = "ArgsParsed"
            /\ UNCHANGED <<outcome, diag, exitCode>>
    /\ UNCHANGED pdfVars
    /\ UNCHANGED <<action, patterns, dry_run, case_sensitive, env, checks,
                   matched, matched_ids, matched_names, log, getResponse,
                   putResponse, payload, stdout>>

\* main, lines 95-103, and get_token
GetToken ==
    /\ pc = "ArgsParsed"
    /\ IF NotToken(env)
       THEN Fail("MissingCredential", ExitMessage)
       ELSE /\ pc' = "CredentialResolved"
            /\ UNCHANGED <<outcome, diag, exitCode>>
    /\ UNCHANGED pdfVars
    /\ UNCHANGED <<action, patterns, dry_run, case_sensitive, env, checks,
                   matched, matched_ids, matched_names, log, getResponse,
                   putResponse, payload, stdout>>

\* what session.get can come back with: no response at all, a 401, another
\* error status with a body of some lines, a 200 with a JSON object (with or
\* without "checks") or with a body that is not JSON, or a 3xx page that is
\* not JSON
GetResponses ==
    { [kind |-> "transport", status |-> NoStatus, body |-> "none", lines |-> 0] }
    \cup { [kind |-> "http", status |-> 401, body |-> "none", lines |-> 0] }
    \cup { [kind |-> "http", status |-> s, body |-> "text", lines |-> n] :
              s \in { t \in StatusUniverse : RaisesForStatus(t) /\ t # 401 },
              n \in BodyLinesUniverse }
    \cup { [kind |-> "http", status |-> 200, body |-> b, lines |-> 0] :
              b \in {"checks", "nokey", "notjson"} }
    \cup { [kind |-> "http", status |-> s, body |-> "notjson", lines |-> 0] :
              s \in { t \in StatusUniverse : ~RaisesForStatus(t) /\ t # 200 } }

\* a lookup data["checks"] that also fails when the key is absent
JsonFails_KeyRequired(body) == body \in {"notjson", "nokey"}

\* lines 38-40: r.json() raises on a body that is not JSON; data.get("checks", [])
\* never raises
JsonFails(body) == body = "notjson"

\* a fetch that is tried again after a transport failure
AtFetch_Retry ==
    \/ pc = "CredentialResolved"
    \/ (pc = "Failed" /\ outcome = "TransportError" /\ putResponse = NoResponse)

\* main reaches line 106 once, right after the session is built
AtFetch == pc = "CredentialResolved"

\* main, line 106, and fetch_all_checks
FetchAllChecks ==
    /\ AtFetch
    /\ log' = Append(log, "GET")
    /\ \E r \in GetResponses :
         /\ getResponse' = r
         /\ IF r.kind = "transport"
            THEN Fail("TransportError", Traceback(NoStatus)) /\ checks' = checks
            ELSE IF Unauthorized(r.status)
            THEN Fail("AuthenticationError", ExitMessage) /\ checks' = checks
            ELSE IF RaisesForStatus(r.status)
            THEN Fail("ServiceError", Traceback(r.status)) /\ checks' = checks
            ELSE IF JsonFails(r.body)
            THEN Fail("DecodeError", Traceback(NoStatus)) /\ checks' = checks
            ELSE /\ pc' = "Fetched"
                 /\ IF r.body = "nokey"
                    THEN checks' = <<>>
                    ELSE checks' \in SeqsUpTo(CheckUniverse, MaxChecks)
                 /\ UNCHANGED <<outcome, diag, exitCode>>
    /\ UNCHANGED pdfVars
    /\ UNCHANGED <<action, patterns, dry_run, case_sensitive, env, matched,
                   matched_ids, matched_names, putResponse, payload, stdout>>

\* main, lines 109-113
Filter ==
    /\ pc = "Fetched"
    /\ matched' = IF case_sensitive
                  THEN CaseSensitiveFilter(checks, patterns)
                  ELSE filter_checks(checks, patterns)
    /\ log' = Append(log, "FILTER")
    /\ pc' = "Filtered"
    /\ UNCHANGED pdfVars
    /\ UNCHANGED <<action, patterns, dry_run, case_sensitive, env, checks,
                   matched_ids, matched_names, getResponse, putResponse,
                   payload, stdout, diag, outcome, exitCode>>

\* an emptiness test on the fetched list instead of the matched one
NothingMatched_Fetched == checks = <<>>

\* `not matched`
NothingMatched == matched = <<>>

\* main, lines 115-120
CheckMatched ==
    /\ pc = "Filtered"
    /\ IF NothingMatched
       THEN /\ Fail("NoMatches", ExitMessage)
            /\ UNCHANGED <<matched_ids, matched_names>>
       ELSE /\ matched_ids' = MatchedIds(matched)
            /\ matched_names' = MatchedNames(matched)
            /\ pc' = "Prepared"
            /\ UNCHANGED <<outcome, diag, exitCode>>
    /\ UNCHANGED pdfVars
    /\ UNCHANGED <<action, patterns, dry_run, case_sensitive, env, checks,
                   matched, log, getResponse, putResponse, payload, stdout>>

\* the header line and the item lines both print loops write
Listing(tag, verb) ==
    << [kind |-> "header", tag |-> tag, verb |-> verb,
        count |-> Len(matched_ids)] >>
    \o Zip(matched_names, matched_ids)

\* main, lines 123-127
DryRunPreview ==
    /\ pc = "Prepared"
    /\ dry_run
    /\ stdout' = stdout \o Listing("DRY RUN",
                                   IF action = "pause" THEN "PAUSE" ELSE "RESUME")
    /\ log' = Append(log, "PREVIEW")
    /\ pc' = "DryRunReported"
    /\ UNCHANGED pdfVars
    /\ UNCHANGED <<action, patterns, dry_run, case_sensitive, env, checks,
                   matched, matched_ids, matched_names, getResponse,
                   putResponse, payload, diag, outcome, exitCode>>

\* main, line 128: sys.exit(0)
ExitAfterPreview ==
    /\ pc = "DryRunReported"
    /\ pc' = "Done"
    /\ outcome' = "Success"
    /\ exitCode' = 0
    /\ UNCHANGED pdfVars
    /\ UNCHANGED <<action, patterns, dry_run, case_sensitive, env, checks,
                   matched, matched_ids, matched_names, log, getResponse,
                   putResponse, payload, stdout, diag>>

\* what session.put can come back with: no response at all, an error status
\* (the generic ones with a body of some lines), a 200 whose content type is
\* JSON (well-formed or not) or something else, or a 3xx page
PutResponses ==
    { [kind |-> "transport", status |-> NoStatus, body |-> "none", lines |-> 0] }
    \cup { [kind |-> "http", status |-> s, body |-> "none", lines |-> 0] :
              s \in { t \in StatusUniverse : t = 401 \/ t = 404 } }
    \cup { [kind |-> "http", status |-> s, body |-> "text", lines |-> n] :
              s \in { t \in StatusUniverse :
                        RaisesForStatus(t) /\ t # 401 /\ t # 404 },
              n \in BodyLinesUniverse }
    \cup { [kind |-> "http", status |-> 200, body |-> b, lines |-> 0] :
              b \in {"json", "notjson", "other"} }
    \cup { [kind |-> "http", status |-> s, body |-> "other", lines |-> 0] :
              s \in { t \in StatusUniverse : ~RaisesForStatus(t) /\ t # 200 } }

\* the apply step reached although the preview was printed
AtApply_FallThrough ==
    \/ (pc = "Prepared" /\ ~dry_run)
    \/ pc = "DryRunReported"

\* main reaches line 131 only when the dry-run branch (which exits) was not taken
AtApply == pc = "Prepared" /\ ~dry_run

\* main, lines 131-132, and bulk_pause_or_resume
BulkPauseOrResume ==
    /\ AtApply
    /\ payload' = Payload(matched_ids, action = "pause")
    /\ log' = Append(log, "PUT")
    /\ \E r \in PutResponses :
         /\ putResponse' = r
         /\ IF r.kind = "transport"
            THEN Fail("TransportError", Traceback(NoStatus))
            ELSE IF Unauthorized(r.status)
            THEN Fail("AuthenticationError", ExitMessage)
            ELSE IF r.status = 404
            THEN Fail("EndpointNotFound", ExitMessage)
            ELSE IF RaisesForStatus(r.status)
            THEN Fail("ServiceError",
                      [form |-> "message",
                       lines |-> IF r.lines = 0 THEN 1 ELSE r.lines,
                       status |-> r.status,
                       hasBody |-> r.lines > 0])
            ELSE IF r.body = "notjson"
            THEN Fail("DecodeError", Traceback(NoStatus))
            ELSE /\ pc' = "Transitioned"
                 /\ UNCHANGED <<outcome, diag, exitCode>>
    /\ UNCHANGED pdfVars
    /\ UNCHANGED <<action, patterns, dry_run, case_sensitive, env, checks,
                   matched, matched_ids, matched_names, getResponse, stdout>>

\* a report printed before the change is applied
AtReport_BeforeApply ==
    \/ pc = "Transitioned"
    \/ (pc = "Prepared" /\ ~dry_run)

\* main reaches line 135 only when bulk_pause_or_resume has returned
AtReport == pc = "Transitioned"

\* main, lines 135-138
Report ==
    /\ AtReport
    /\ stdout' = stdout \o Listing("APPLIED",
                                   IF action = "pause" THEN "Paused" ELSE "Resumed")
    /\ log' = Append(log, "REPORT")
    /\ pc' = "Reported"
    /\ UNCHANGED pdfVars
    /\ UNCHANGED <<action, patterns, dry_run, case_sensitive, env, checks,
                   matched, matched_ids, matched_names, getResponse,
                   putResponse, payload, diag, outcome, exitCode>>

\* a main that waits for input that never comes before it returns
ReturnFromMain_Wait ==
    /\ pc = "Reported"
    /\ UNCHANGED vars

\* main returns: the interpreter exits with status 0
ReturnFromMain ==
    /\ pc = "Reported"
    /\ pc' = "Done"
    /\ outcome' = "Success"
    /\ exitCode' = 0
    /\ UNCHANGED pdfVars
    /\ UNCHANGED <<action, patterns, dry_run, case_sensitive, env, checks,
                   matched, matched_ids, matched_names, log, getResponse,
                   putResponse, payload, stdout, diag>>

Next ==
    \/ ParseArgs
    \/ GetToken
    \/ FetchAllChecks
    \/ Filter
    \/ CheckMatched
    \/ DryRunPreview
    \/ ExitAfterPreview
    \/ BulkPauseOrResume
    \/ Report
    \/ ReturnFromMain

Spec == Init /\ [][Next]_vars

\* The interpreter keeps executing main, and both network calls carry
\* timeout=TIMEOUT, so each of them returns or raises: a step that is possible
\* is eventually taken.
FairSpec == Spec /\ WF_vars(Next)

----------------------------------------------------------------------------
(* merge_pdf.py: combine_pdfs_in_directory called again and again *)

DotPdf == <<".", "p", "d", "f">>

\* the default of the output_filename parameter
DefaultOutput == <<"c", "o", "m", "b", "i", "n", "e", "d", ".", "p", "d", "f">>

\* files the directory can hold before the first call
FileUniverse ==
    { <<"a", ".", "p", "d", "f">>,
      <<"B", ".", "P", "D", "F">>,
      <<"n", ".", "t", "x", "t">>,
      DefaultOutput }

\* values of the output_filename argument: the default, a name that does not
\* end in .pdf, and the name of one of the inputs
OutputUniverse ==
    { DefaultOutput,
      <<"o", ".", "t", "x", "t">>,
      <<"a", ".", "p", "d", "f">> }

\* code point of a character, the order list.sort() compares strings by
Ord(ch) ==
    CASE ch = "." -> 46
      [] ch = "B" -> 66 [] ch = "D" -> 68 [] ch = "F" -> 70 [] ch = "P" -> 80
      [] ch = "a" -> 97 [] ch = "b" -> 98 [] ch = "c" -> 99 [] ch = "d" -> 100
      [] ch = "e" -> 101 [] ch = "f" -> 102 [] ch = "i" -> 105
      [] ch = "m" -> 109 [] ch = "n" -> 110 [] ch = "o" -> 111
      [] ch = "p" -> 112 [] ch = "t" -> 116 [] ch = "x" -> 120

\* s < t on Python strings
StrLess(s, t) ==
    \E i \in 1..(Len(s) + 1) :
       /\ i <= Len(t)
       /\ \A j \in 1..(i - 1) : s[j] = t[j]
       /\ (i = Len(s) + 1 \/ Ord(s[i]) < Ord(t[i]))

\* str.endswith
EndsWith(s, suffix) ==
    /\ Len(s) >= Len(suffix)
    /\ SubSeq(s, Len(s) - Len(suffix) + 1, Len(s)) = suffix

\* pdf_files.sort() on the names picked from os.listdir
RECURSIVE Sorted(_)
Sorted(S) ==
    IF S = {} THEN <<>>
    ELSE LET m == CHOOSE x \in S : \A y \in S \ {x} : StrLess(x, y)
         IN  <<m>> \o Sorted(S \ {m})

\* [f for f in os.listdir(directory) if f.lower().endswith(".pdf")], sorted
PdfFiles(dir) == Sorted({ f \in dir : EndsWith(lower(f), DotPdf) })

\* no run of pingdom_pause.py is under way
NoMain ==
    /\ action = "pause"
    /\ patterns = <<>>
    /\ dry_run = FALSE
    /\ case_sensitive = FALSE
    /\ env = <<>>
    /\ pc = "NotStarted"
    /\ checks = <<>>
    /\ matched = <<>>
    /\ matched_ids = <<>>
    /\ matched_names = <<>>
    /\ log = <<>>
    /\ getResponse = NoResponse
    /\ putResponse = NoResponse
    /\ payload = NoPayload
    /\ stdout = <<>>
    /\ diag = NoDiag
    /\ outcome = "running"
    /\ exitCode = NoExit

PdfInit ==
    /\ NoMain
    /\ directory \in SUBSET FileUniverse
    /\ output_filename \in OutputUniverse
    /\ runs = <<>>

\* combine_pdfs_in_directory(directory, output_filename), lines 4-24: with no
\* PDF it returns without writing; otherwise merger.write creates or
\* overwrites the output file in the same directory
CombinePdfs ==
    /\ Len(runs) < MaxRuns
    /\ LET pdf_files == PdfFiles(directory)
       IN  /\ runs' = Append(runs, pdf_files)
           /\ directory' = IF pdf_files = <<>>
                           THEN directory
                           ELSE directory \cup {output_filename}
    /\ UNCHANGED output_filename
    /\ UNCHANGED mainVars

PdfNext == CombinePdfs

PdfSpec == PdfInit /\ [][PdfNext]_vars

TypeOK ==
    /\ pc \in {"Start", "ArgsParsed", "CredentialResolved", "Fetched",
               "Filtered", "Prepared", "DryRunReported", "Transitioned",
               "Reported", "Done", "Failed"}
    /\ exitCode \in {NoExit, 0, 1}

----------------------------------------------------------------------------
(* Vocabulary of the properties *)

Count(e) == Cardinality({ i \in 1..Len(log) : log[i] = e })

GetSent == Count("GET") > 0
PutSent == Count("PUT") > 0
FilterRan == Count("FILTER") > 0
Terminal == pc \in {"Done", "Failed"}

\* two characters that are equal once case is ignored
SameLetter(x, y) ==
    \/ x = y
    \/ {x, y} = {"a", "A"}
    \/ {x, y} = {"b", "B"}

\* p occurs in s at offset i, letters compared exactly or ignoring case
OccursAt(p, s, i, exact) ==
    /\ i + Len(p) <= Len(s)
    /\ \A j \in 1..Len(p) :
         IF exact THEN s[i + j] = p[j] ELSE SameLetter(s[i + j], p[j])

\* the name of check c contains one of the patterns under the configured case rule
NameMatches(c) ==
    LET s == IF c.hasName THEN c.name ELSE <<>>
    IN  \E k \in 1..Len(patterns) :
          \E i \in 0..Len(s) : OccursAt(patterns[k], s, i, case_sensitive)

\* positions of the fetched list whose check matches
MatchingPositions == { i \in 1..Len(checks) : NameMatches(checks[i]) }

\* the k-th smallest matching position
Position(k) ==
    CHOOSE i \in MatchingPositions :
      Cardinality({ j \in MatchingPositions : j < i }) = k - 1

\* C1: once the filter has run, matched lists exactly the fetched checks whose
\* name contains one of the patterns (both sides lowercased unless
\* --case-sensitive), in fetch order, each occurrence kept.
C1_MatchedIsExactlyTheMatchingChecks ==
    FilterRan =>
        /\ Len(matched) = Cardinality(MatchingPositions)
        /\ \A k \in 1..Len(matched) : matched[k] = checks[Position(k)]

\* C1 witness: a case-insensitive run where the pattern "AB" selects the one
\* check named "Ab" out of two fetched checks.
C1_Witness ==
    /\ FilterRan
    /\ ~case_sensitive
    /\ patterns = << <<"A", "B">> >>
    /\ Len(checks) = 2
    /\ Len(matched) = 1
    /\ matched[1] = checks[2]

\* C2: with --dry-run no PUT is ever issued.
C2_DryRunNeverPuts ==
    dry_run => (~PutSent /\ putResponse = NoResponse /\ payload = NoPayload)

\* C2 witness: a dry run that printed its preview of two matched checks and exited.
C2_Witness ==
    /\ dry_run
    /\ pc = "Done"
    /\ Len(matched) >= 2
    /\ Len(stdout) > 0

\* C3: an empty match result ends the run in NoMatches with a non-zero exit and
\* no PUT, with and without --dry-run.
C3_EmptyMatchIsNoMatches ==
    (FilterRan /\ matched = <<>>) =>
        /\ ~PutSent
        /\ \/ pc = "Filtered"
           \/ (pc = "Failed" /\ outcome = "NoMatches" /\ exitCode # 0)

\* C3 witness: checks were fetched, none matched, the run failed with NoMatches.
C3_Witness ==
    /\ FilterRan
    /\ checks # <<>>
    /\ matched = <<>>
    /\ ~dry_run
    /\ pc = "Failed"
    /\ outcome = "NoMatches"

\* C4: whenever the PUT is sent its id list is non-empty and the body carries
\* a checkids field.
C4_PutAlwaysCarriesIds ==
    PutSent => (matched_ids # <<>> /\ payload.hasCheckids)

\* value of a decimal digit character, NoStatus for any other character
DigitValue(ch) ==
    CASE ch = "0" -> 0 [] ch = "1" -> 1 [] ch = "2" -> 2 [] ch = "3" -> 3
      [] ch = "4" -> 4 [] ch = "5" -> 5 [] ch = "6" -> 6 [] ch = "7" -> 7
      [] ch = "8" -> 8 [] ch = "9" -> 9 [] OTHER -> NoStatus

\* a comma-separated list of decimal numbers read back, left to right;
\* acc is the current number, NoStatus when no digit of it was read yet
RECURSIVE ReadIds(_, _, _)
ReadIds(text, acc, out) ==
    IF text = <<>> THEN Append(out, acc)
    ELSE IF Head(text) = ","
         THEN ReadIds(Tail(text), NoStatus, Append(out, acc))
         ELSE ReadIds(Tail(text),
                      (IF acc = NoStatus THEN 0 ELSE acc * 10)
                          + DigitValue(Head(text)),
                      out)

\* every character of the field is a digit or a comma
WellFormedIds(text) ==
    \A i \in 1..Len(text) : text[i] = "," \/ DigitValue(text[i]) # NoStatus

HasIdKey(c) == c.hasId

C6_NoPatternsIsInvalidArgument ==
    patterns = <<>> =>
        /\ ~GetSent /\ ~PutSent
        /\ \/ pc = "Start"
           \/ (pc = "Failed" /\ outcome = "InvalidArgument" /\ exitCode # 0)

\* C6 witness: a run with zero patterns and a valid token that has failed.
C6_Witness ==
    /\ patterns = <<>>
    /\ env = << <<"t">> >>
    /\ pc = "Failed"
    /\ outcome = "InvalidArgument"
    /\ log = <<>>

\* the token environment variable is unset or empty
TokenMissing == env = <<>> \/ env = << <<>> >>

\* C7 as stated: every run whose token variable is unset or empty ends in
\* MissingCredential.
C7_TokenMissingIsMissingCredential ==
    (TokenMissing /\ Terminal) =>
        (pc = "Failed" /\ outcome = "MissingCredential" /\ exitCode # 0)

\* C7 amended: a run whose token variable is unset or empty sends no GET and
\* no PUT and fails with a non-zero exit: with MissingCredential when at least
\* one pattern was given, with InvalidArgument when none was.
C7_TokenMissingFailsBeforeNetwork ==
    TokenMissing =>
        /\ ~GetSent /\ ~PutSent
        /\ \/ pc \in {"Start", "ArgsParsed"}
           \/ /\ pc = "Failed"
              /\ exitCode # 0
              /\ outcome = IF patterns = <<>> THEN "InvalidArgument"
                           ELSE "MissingCredential"

\* C7 witness: patterns were given, the token variable is set but empty, and
\* the run has failed with MissingCredential.
C7_Witness ==
    /\ env = << <<>> >>
    /\ patterns # <<>>
    /\ pc = "Failed"
    /\ outcome = "MissingCredential"
    /\ log = <<>>

\* C8: a 401 on the GET ends the run in AuthenticationError with nothing
\* filtered, printed or written; a 401 on the PUT ends it in
\* AuthenticationError with no confirmation printed.
C8_UnauthorizedEndsRun ==
    /\ (getResponse.kind = "http" /\ getResponse.status = 401) =>
          /\ pc = "Failed" /\ outcome = "AuthenticationError" /\ exitCode # 0
          /\ log = <<"GET">>
          /\ matched = <<>> /\ stdout = <<>>
    /\ (putResponse.kind = "http" /\ putResponse.status = 401) =>
          /\ pc = "Failed" /\ outcome = "AuthenticationError" /\ exitCode # 0
          /\ Count("REPORT") = 0
          /\ stdout = <<>>

\* C8 witness: the PUT for a non-empty match was answered with 401.
C8_Witness ==
    /\ putResponse.kind = "http"
    /\ putResponse.status = 401
    /\ matched # <<>>
    /\ log = <<"GET", "FILTER", "PUT">>

\* the run got past argument and credential validation
PassedValidation ==
    /\ pc \notin {"Start", "ArgsParsed"}
    /\ outcome \notin {"InvalidArgument", "MissingCredential"}

\* C9: a run past validation sends exactly one GET and at most one PUT, the
\* PUT only after a successful GET and the filter, and repeats neither.
C9_OneGetAtMostOnePut ==
    /\ Count("GET") <= 1
    /\ Count("PUT") <= 1
    /\ (PassedValidation /\ pc # "CredentialResolved") => Count("GET") = 1
    /\ \A i \in 1..Len(log) :
         log[i] = "PUT" =>
            /\ i = 3 /\ log[1] = "GET" /\ log[2] = "FILTER"
            /\ getResponse.kind = "http"
            /\ getResponse.status \notin {401, 404, 500}
            /\ getResponse.body \in {"checks", "nokey"}

\* C9 witness: a run whose PUT failed on the network, after one GET and the filter.
C9_Witness ==
    /\ pc = "Failed"
    /\ putResponse.kind = "transport"
    /\ Count("GET") = 1
    /\ Count("PUT") = 1

\* the fatal conditions of the taxonomy
Taxonomy ==
    {"MissingCredential", "InvalidArgument", "AuthenticationError",
     "EndpointNotFound", "ServiceError", "TransportError", "NoMatches"}

\* the last thing the run printed is the preview or the confirmation
EndsWithListing ==
    /\ log # <<>>
    /\ \/ log[Len(log)] = "PREVIEW"
       \/ (log[Len(log)] = "REPORT" /\ putResponse.kind = "http"
           /\ ~RaisesForStatus(putResponse.status))

\* C10: a finished run has exit status 0 exactly when it ended with the
\* preview or the confirmation, and every fatal condition of the taxonomy
\* ends it with a non-zero status and one diagnostic line.
C10_ExitStatusAndSingleDiagnostic ==
    Terminal =>
        /\ exitCode = 0 <=> EndsWithListing
        /\ outcome \in Taxonomy =>
             (exitCode # 0 /\ diag.form = "message" /\ diag.lines = 1)

\* header lines printed so far
Headers == { i \in 1..Len(stdout) : stdout[i].kind = "header" }

\* C11: the subcommand fixes the desired state in the request and in the
\* output alike: pause sends paused=true and prints PAUSE or Paused, resume
\* sends paused=false and prints RESUME or Resumed.
C11_VerbAndPausedFollowSubcommand ==
    /\ PutSent =>
         payload.paused = (IF action = "pause" THEN "true" ELSE "false")
    /\ \A i \in Headers :
         /\ stdout[i].tag = "DRY RUN" =>
              stdout[i].verb = (IF action = "pause" THEN "PAUSE" ELSE "RESUME")
         /\ stdout[i].tag = "APPLIED" =>
              /\ stdout[i].verb = (IF action = "pause" THEN "Paused" ELSE "Resumed")
              /\ (stdout[i].verb = "Paused") <=> (payload.paused = "true")
              /\ (stdout[i].verb = "Resumed") <=> (payload.paused = "false")

\* C11 witness: a resume run that sent paused=false and printed Resumed.
C11_Witness ==
    /\ action = "resume"
    /\ pc = "Done"
    /\ payload.paused = "false"
    /\ stdout # <<>>
    /\ stdout[1].tag = "APPLIED"
    /\ stdout[1].verb = "Resumed"

\* the PUT came back and bulk_pause_or_resume returned to main
PutReturned ==
    /\ PutSent
    /\ putResponse.kind = "http"
    /\ ~RaisesForStatus(putResponse.status)
    /\ putResponse.body # "notjson"

Phase(p) ==
    CASE p = "ArgsParsed" -> "Start"
      [] p = "Prepared" -> "Filtered"
      [] OTHER -> p

\* the forward steps of the state machine of one invocation
PhaseSteps ==
    { <<"Start", "CredentialResolved">>,
      <<"CredentialResolved", "Fetched">>,
      <<"Fetched", "Filtered">>,
      <<"Filtered", "DryRunReported">>,
      <<"Filtered", "Transitioned">>,
      <<"DryRunReported", "Done">>,
      <<"Transitioned", "Reported">>,
      <<"Reported", "Done">> }

\* C13: every step of a run goes forward along Start, CredentialResolved,
\* Fetched, Filtered, then DryRunReported or Transitioned and Reported, then
\* Done, or straight to Failed on a fatal error; nothing happens after Done or
\* Failed and no phase is entered twice.
C13_PhasesInOrder ==
    [][ LET p == Phase(pc)
            q == Phase(pc')
        IN  /\ \/ <<p, q>> \in PhaseSteps
               \/ (q = "Failed" /\ p \notin {"Done", "Failed"})
               \/ (p = q /\ pc # pc' /\ pc' \in {"ArgsParsed", "Prepared"})
            /\ (outcome' \notin {"running", "Success"}) <=> (q = "Failed")
            /\ Len(log') >= Len(log)
      ]_vars

\* C13 witness: a run that went through every phase of the write path to Done.
C13_Witness ==
    /\ pc = "Done"
    /\ ~dry_run
    /\ log = <<"GET", "FILTER", "PUT", "REPORT">>

\* a status of the 2xx class
Is2xx(status) == 200 <= status /\ status < 300

\* C14: the answer to the PUT decides the result: 401 AuthenticationError,
\* 404 EndpointNotFound, any other status outside 2xx ServiceError with the
\* status and the body text in the diagnostic, no answer TransportError, and
\* 2xx success; the four errors end the run.
C14_PutOutcomeMapping ==
    PutSent =>
        IF putResponse.kind = "transport"
        THEN pc = "Failed" /\ outcome = "TransportError"
        ELSE IF putResponse.status = 401
        THEN pc = "Failed" /\ outcome = "AuthenticationError"
        ELSE IF putResponse.status = 404
        THEN pc = "Failed" /\ outcome = "EndpointNotFound"
        ELSE IF ~Is2xx(putResponse.status)
        THEN /\ pc = "Failed" /\ outcome = "ServiceError"
             /\ diag.status = putResponse.status
             /\ putResponse.lines > 0 => diag.hasBody
        ELSE pc \in {"Transitioned", "Reported", "Done"}

\* C15: a GET answered with a status outside 2xx other than 401 ends the run
\* in ServiceError with the status and the body in the diagnostic, a GET that
\* got no answer ends it in TransportError; nothing is filtered, printed or
\* written afterwards.
C15_GetErrorMapping ==
    GetSent =>
        /\ getResponse.kind = "transport" =>
             /\ pc = "Failed" /\ outcome = "TransportError"
             /\ log = <<"GET">> /\ stdout = <<>>
        /\ (getResponse.kind = "http" /\ ~Is2xx(getResponse.status)
              /\ getResponse.status # 401) =>
             /\ pc = "Failed" /\ outcome = "ServiceError"
             /\ diag.status = getResponse.status
             /\ getResponse.lines > 0 => diag.hasBody
             /\ log = <<"GET">> /\ stdout = <<>>

\* C16: a successful GET whose JSON object has no "checks" key is read as an
\* empty check list, not as a fetch error: the run goes on to the filter and
\* ends in NoMatches without a PUT.
C16_MissingChecksKeyIsEmptyList ==
    (getResponse.kind = "http" /\ getResponse.body = "nokey") =>
        /\ checks = <<>>
        /\ matched = <<>>
        /\ ~PutSent
        /\ stdout = <<>>
        /\ \/ pc \in {"Fetched", "Filtered"}
           \/ (pc = "Failed" /\ outcome = "NoMatches" /\ exitCode # 0
               /\ log = <<"GET", "FILTER">>)

\* C16 witness: the GET returned an object without "checks" and the run has
\* ended in NoMatches after the filter ran.
C16_Witness ==
    /\ getResponse.kind = "http"
    /\ getResponse.status = 200
    /\ getResponse.body = "nokey"
    /\ FilterRan
    /\ pc = "Failed"
    /\ outcome = "NoMatches"

\* C17: given that every network call returns or fails, every run eventually
\* reaches Done or Failed.
C17_EveryRunTerminates == <>(pc \in {"Done", "Failed"})

\* C17 witness: a run that reached Done through the GET, the filter, the PUT
\* and the report.
C17_Witness ==
    /\ pc = "Done"
    /\ exitCode = 0
    /\ Count("GET") = 1 /\ Count("PUT") = 1 /\ Count("REPORT") = 1

\* C18: a preview or confirmation announces as many checks as were matched,
\* has one line per matched check, and line k carries the name and the id of
\* the k-th matched check.
C18_ListingPairsNameAndIdOfSameCheck ==
    stdout # <<>> =>
        /\ stdout[1].kind = "header"
        /\ stdout[1].count = Len(matched)
        /\ Len(stdout) = 1 + Len(matched)
        /\ \A k \in 1..Len(matched) :
             k + 1 <= Len(stdout) =>
               /\ stdout[k + 1].kind = "item"
               /\ matched[k].hasId
               /\ stdout[k + 1].id = matched[k].id
               /\ IF matched[k].hasName
                  THEN ~stdout[k + 1].name.label
                       /\ stdout[k + 1].name.name = matched[k].name
                  ELSE stdout[k + 1].name.label
                       /\ stdout[k + 1].name.id = matched[k].id

\* C19: the pattern check comes before the token is read: a run with zero
\* patterns never gets to get_token, and when the token is missing as well
\* the failure reported is the missing-patterns one, never MissingCredential.
C19_PatternCheckPrecedesToken ==
    /\ patterns = <<>> =>
         /\ pc # "ArgsParsed"
         /\ outcome # "MissingCredential"
    /\ (patterns = <<>> /\ NotToken(env) /\ pc # "Start") =>
         /\ pc = "Failed"
         /\ outcome = "InvalidArgument"
         /\ diag.form = "message"
    /\ outcome = "MissingCredential" => patterns # <<>>

\* C19 witness: no patterns and an unset token: the run failed with InvalidArgument.
C19_Witness ==
    /\ patterns = <<>>
    /\ env = <<>>
    /\ pc = "Failed"
    /\ outcome = "InvalidArgument"

\* the names a call took as its inputs
Inputs(k) == { runs[k][i] : i \in 1..Len(runs[k]) }

\* C20: a second call on the same directory with the same arguments merges
\* the same input files in the same order as the first, and a call never
\* takes the output file an earlier call wrote as one of its inputs.
C20_SecondRunSameInputs ==
    \A k \in 2..Len(runs) :
        /\ runs[k] = runs[1]
        /\ runs[k - 1] # <<>> => output_filename \notin Inputs(k)

====
